---- MODULE Spec2Model ----
(***************************************************************************)
(* A model of package wg (savalin/waitgroup): the waitGroup struct, its    *)
(* configuration setters, Start (init, the forwarder goroutine, the        *)
(* dispatch loop, the teardown), the worker goroutines running             *)
(* waitGroup.do, Reset, and the contexts and timers Start depends on.      *)
(*                                                                         *)
(* Time is counted in seconds.  A task function is modelled by what its    *)
(* body does when it ends: return nil, return an error, or panic.  A body  *)
(* takes any time to do so, and may never end: no step of a body is ever   *)
(* required to happen.                                                     *)
(***************************************************************************)
EXTENDS Integers, Sequences, FiniteSets, TLC

(* ---------------------------- bounds ----------------------------------- *)
\* the number of tasks Start queues over the life of a group
MaxTasks == 2
\* the number of times Start runs init on one group
MaxRuns == 2

(* ------------------------ program constants ---------------------------- *)
statusIdle == 0
statusSuccess == 1
statusTimeout == 2
\* statusCaneled in the constants block, statusCancelled where wg.go uses it
statusCaneled == 3
statusError == 4
defaultMaxTimeout == 15

(* ----------------------------- values ---------------------------------- *)
\* what a task body does when it ends
TaskKinds == {"ok", "err", "panic"}
\* the durations SetTimeout is called with
TimeoutInputs == {defaultMaxTimeout + 5}
\* the capacities SetCapacity is called with
CapacityInputs == {-1, 1}
\* the time left to the deadline of a context given to WithContext
CtxTimeouts == {1}
NoDeadline == <<>>
NoTimeout == <<>>
NilChan == 0
Runs == 1..MaxRuns

VARIABLES
    status,       \* waitGroupStatus.status
    ctx,          \* waitGroup.ctx: "nil", "background", "caller" or "run"
    receiver,     \* waitGroup.receiver: a channel (the run that made it) or NilChan
    sender,       \* waitGroup.sender: a channel (the run that made it) or NilChan
    errors,       \* waitGroup.errors
    stopOnError,  \* waitGroup.stopOnError
    stackBuffer,  \* waitGroup.stackBuffer
    capacity,     \* waitGroup.capacity
    length,       \* waitGroup.length
    timeout,      \* waitGroup.timeout: NoTimeout (nil) or <<t>>
    pc,           \* where the caller is: "idle" (outside Start), "loop" (at the
                  \* select of ForLoop), "end" (the loop condition failed),
                  \* "break_failed" (wg.go:123) or "break_ctx" (wg.go:138)
    run,          \* how many times init has run
    rcv,          \* per run: the buffer of the receiver channel init made
    rcvCap,       \* per run: its capacity
    snd,          \* per run: the buffer of the sender channel init made
    sndClosed,    \* per run: sender closed
    failed,       \* per run: the buffer of Start's failed channel
    done,         \* per run: the number of values in Start's done channel
    resCap,       \* per run: the capacity of failed and of done
    wgDone,       \* per run: Start's wgDone channel is closed
    fwd,          \* per run: the forwarder goroutine
    workers,      \* per run: the worker goroutines, in launch order
    now,          \* the clock
    startTime,    \* Start's startTime
    callerCtx,    \* the context the caller gave to WithContext
    runCtx,       \* the context Start derived with context.WithTimeout
    calls,        \* "run": the last call of Start ran init; "skip": it returned at
                  \* wg.go:67; "none": Start has not been called
    mark          \* the length of the error list when the last run began

wgVars == <<status, ctx, receiver, sender, errors, stopOnError, stackBuffer,
            capacity, length, timeout>>
chanVars == <<rcv, rcvCap, snd, sndClosed, failed, done, resCap, wgDone>>
ctxVars == <<callerCtx, runCtx>>
vars == <<wgVars, pc, run, chanVars, fwd, workers, now, startTime, ctxVars, calls, mark>>

Max(a, b) == IF a >= b THEN a ELSE b

RECURSIVE SumTo(_, _)
SumTo(f, n) == IF n = 0 THEN 0 ELSE f[n] + SumTo(f, n - 1)

\* the number of tasks the calls of Start have queued so far
Queued == SumTo(resCap, MaxRuns)


(* ---------------------------- accessors -------------------------------- *)
GetCapacity == capacity

GetLastError == IF Len(errors) > 0 THEN errors[Len(errors)] ELSE "nil"

GetAllErrors == errors

\* a variant of checkStatus that never recognises the status
checkStatusNever(s) == FALSE

checkStatus(s) ==
    IF s < statusIdle \/ s > statusError THEN FALSE ELSE status = s

\* a variant of setStatus that keeps an Error status once it is set
setStatusKeepError(s) == IF status = statusError THEN status ELSE s

\* a variant of setStatus that clears a status that is set a second time
setStatusToggle(s) == IF s = status THEN statusSuccess ELSE s

\* the value setStatus leaves in the status field
setStatus(s) ==
    IF s < statusIdle \/ s > statusError THEN status ELSE s

ErrorTimeout(d) == [kind |-> "timeout", d |-> d]

(* ----------------------------- contexts -------------------------------- *)
NoCtx == [deadline |-> NoDeadline, err |-> "nil"]
NoRunCtx == [deadline |-> NoDeadline, err |-> "nil", timer |-> FALSE, parent |-> "none"]

\* context.WithDeadline(context.Background(), d), called by the caller at instant now
WithDeadline(d) ==
    [deadline |-> <<d>>, err |-> IF d <= now THEN "DeadlineExceeded" ELSE "nil"]

\* the parent of context.WithTimeout at wg.go:88, as (deadline, err)
Parent ==
    CASE ctx = "caller" -> [deadline |-> callerCtx.deadline, err |-> callerCtx.err]
      [] ctx = "run"    -> [deadline |-> runCtx.deadline, err |-> runCtx.err]
      [] OTHER          -> NoCtx

\* a variant of WithTimeout that derives a context with no timer of its own,
\* as context.WithCancel(parent) does
WithCancelOnly(p, t) ==
    [deadline |-> p.deadline,
     err      |-> p.err,
     timer    |-> FALSE,
     parent   |-> IF p.err = "nil" /\ ctx = "caller" THEN "caller" ELSE "none"]

\* context.WithTimeout(parent, t) called at instant now
WithTimeout(p, t) ==
    LET d == now + t
        inherits == p.deadline # NoDeadline /\ p.deadline[1] < d
    IN  [deadline |-> IF inherits THEN p.deadline ELSE <<d>>,
         err      |-> IF p.err # "nil" THEN p.err
                      ELSE IF ~inherits /\ d <= now THEN "DeadlineExceeded"
                      ELSE "nil",
         timer    |-> ~inherits /\ p.err = "nil" /\ d > now,
         parent   |-> IF p.err = "nil" /\ ctx = "caller" THEN "caller" ELSE "none"]


(* ------------------------------ Init ----------------------------------- *)
\* New(): &waitGroup{}, nothing started, the clock at 0
Init ==
    /\ status = statusIdle
    /\ ctx = "nil"
    /\ receiver = NilChan
    /\ sender = NilChan
    /\ errors = <<>>
    /\ stopOnError = FALSE
    /\ stackBuffer = <<>>
    /\ capacity = 0
    /\ length = 0
    /\ timeout = NoTimeout
    /\ pc = "idle"
    /\ run = 0
    /\ rcv = [r \in Runs |-> <<>>]
    /\ rcvCap = [r \in Runs |-> 0]
    /\ snd = [r \in Runs |-> <<>>]
    /\ sndClosed = [r \in Runs |-> FALSE]
    /\ failed = [r \in Runs |-> <<>>]
    /\ done = [r \in Runs |-> 0]
    /\ resCap = [r \in Runs |-> 0]
    /\ wgDone = [r \in Runs |-> FALSE]
    /\ fwd = [r \in Runs |-> [pc |-> "none", ch |-> NilChan, rch |-> NilChan, f |-> "none"]]
    /\ workers = [r \in Runs |-> <<>>]
    /\ now = 0
    /\ startTime = 0
    /\ callerCtx = NoCtx
    /\ runCtx = NoRunCtx
    /\ calls = "none"
    /\ mark = 0

(* ------------------------- configuration ------------------------------- *)
\* WithContext(c): c is a context the caller has just made with WithCancel (no
\* deadline: NoDeadline) or with WithDeadline (deadline now + d)
WithContext(d) ==
    /\ pc = "idle"
    /\ ctx' = "caller"
    /\ callerCtx' = IF d = NoDeadline THEN NoCtx ELSE WithDeadline(now + d[1])
    /\ UNCHANGED <<status, receiver, sender, errors, stopOnError, stackBuffer,
                   capacity, length, timeout, pc, run, chanVars, fwd, workers,
                   now, startTime, runCtx, calls, mark>>

\* Add(f): append one task
Add(k) ==
    /\ pc = "idle"
    /\ stackBuffer' = Append(stackBuffer, [idx |-> Len(stackBuffer) + 1, kind |-> k])
    /\ UNCHANGED <<status, ctx, receiver, sender, errors, stopOnError,
                   capacity, length, timeout, pc, run, chanVars, fwd, workers,
                   now, startTime, ctxVars, calls, mark>>

SetTimeout(t) ==
    /\ pc = "idle"
    /\ timeout' = <<t>>
    /\ UNCHANGED <<status, ctx, receiver, sender, errors, stopOnError, stackBuffer,
                   capacity, length, pc, run, chanVars, fwd, workers,
                   now, startTime, ctxVars, calls, mark>>

SetStopOnError(b) ==
    /\ pc = "idle"
    /\ stopOnError' = b
    /\ UNCHANGED <<status, ctx, receiver, sender, errors, stackBuffer,
                   capacity, length, timeout, pc, run, chanVars, fwd, workers,
                   now, startTime, ctxVars, calls, mark>>

SetCapacity(c) ==
    /\ pc = "idle"
    /\ capacity' = IF c >= 0 THEN c ELSE capacity
    /\ UNCHANGED <<status, ctx, receiver, sender, errors, stopOnError, stackBuffer,
                   length, timeout, pc, run, chanVars, fwd, workers,
                   now, startTime, ctxVars, calls, mark>>

\* Reset()
Reset ==
    /\ pc = "idle"
    /\ stackBuffer' = <<>>
    /\ receiver' = NilChan
    /\ sender' = NilChan
    /\ timeout' = NoTimeout
    /\ stopOnError' = FALSE
    /\ status' = setStatus(statusIdle)
    /\ errors' = <<>>
    /\ ctx' = "nil"
    /\ mark' = 0
    /\ UNCHANGED <<capacity, length, pc, run, chanVars, fwd, workers,
                   now, startTime, ctxVars, calls>>


(* ------------------------------- Start --------------------------------- *)
\* a variant of EffectiveTimeout in which the default is a ceiling for the
\* timeout set
EffectiveTimeoutCapped ==
    IF timeout # NoTimeout /\ timeout[1] # 0 /\ timeout[1] < defaultMaxTimeout
    THEN timeout[1] ELSE defaultMaxTimeout

\* the timeout Start gives to context.WithTimeout (wg.go:80-86)
EffectiveTimeout ==
    IF timeout # NoTimeout /\ timeout[1] # 0 THEN timeout[1] ELSE defaultMaxTimeout

\* the capacity init gives to the receiver channel, for a queue of n tasks
ReceiverCap(n) == IF GetCapacity > 0 THEN GetCapacity ELSE n

\* Start on a group whose status is statusSuccess: return wg (wg.go:66-68)
StartSkip ==
    /\ pc = "idle"
    /\ checkStatus(statusSuccess)
    /\ calls' = "skip"
    /\ UNCHANGED <<wgVars, pc, run, chanVars, fwd, workers, now, startTime, ctxVars, mark>>

\* Start otherwise: init, then, with tasks queued, the run's channels, the
\* derived context and the forwarder goroutine (wg.go:70-100)
StartRun ==
    /\ pc = "idle"
    /\ ~checkStatus(statusSuccess)
    /\ run < MaxRuns
    /\ LET r == run + 1
           n == Len(stackBuffer)
       IN  /\ run' = r
           /\ calls' = "run"
           /\ mark' = Len(errors)
           /\ status' = setStatus(statusSuccess)
           /\ length' = n
           /\ receiver' = r
           /\ sender' = r
           /\ rcvCap' = [rcvCap EXCEPT ![r] = ReceiverCap(n)]
           /\ snd' = [snd EXCEPT ![r] = stackBuffer]
           /\ IF n > 0
              THEN /\ resCap' = [resCap EXCEPT ![r] = n]
                   /\ startTime' = now
                   /\ runCtx' = WithTimeout(Parent, EffectiveTimeout)
                   /\ ctx' = "run"
                   /\ fwd' = [fwd EXCEPT ![r].pc = "start"]
                   /\ pc' = "loop"
              ELSE /\ ctx' = IF ctx = "nil" THEN "background" ELSE ctx
                   /\ UNCHANGED <<resCap, startTime, runCtx, fwd, pc>>
    /\ UNCHANGED <<errors, stopOnError, stackBuffer, capacity, timeout, rcv,
                   sndClosed, failed, done, wgDone, workers, now, callerCtx>>

\* a variant of LoopCond that goes round once more with nothing remaining
LoopCondLate(n) == IF n >= 0 THEN "loop" ELSE "end"

\* a variant of LoopCond that ends the loop one result early
LoopCondEarly(n) == IF n > 1 THEN "loop" ELSE "end"

\* for wg.length > 0: the next iteration, or the end of the loop (wg.go:103)
LoopCond(n) == IF n > 0 THEN "loop" ELSE "end"

\* a variant of FailedBreaks that never leaves the loop on a failure
FailedBreaksNever == FALSE

\* if wg.stopOnError { break ForLoop } (wg.go:122-124)
FailedBreaks == stopOnError

\* variants of IsCanceled: one that takes no context error for a cancellation,
\* one that takes every context error for a cancellation
IsCanceledNever(e) == FALSE

IsCanceledAlways(e) == e # "nil"

\* wg.ctx.Err().Error() == context.Canceled.Error() (wg.go:132)
IsCanceled(e) == e = "Canceled"

\* case f := <-wg.receiver: launch a worker (wg.go:107-115)
LoopReceive ==
    /\ pc = "loop"
    /\ length > 0
    /\ receiver # NilChan
    /\ rcv[receiver] # <<>>
    /\ rcv' = [rcv EXCEPT ![receiver] = Tail(@)]
    /\ workers' = [workers EXCEPT ![run] =
                     Append(@, [f |-> Head(rcv[receiver]), pc |-> "start", msg |-> "none"])]
    /\ UNCHANGED <<wgVars, pc, run, rcvCap, snd, sndClosed, failed, done, resCap,
                   wgDone, fwd, now, startTime, ctxVars, calls, mark>>

\* case err := <-failed (wg.go:118-124)
LoopFailed ==
    /\ pc = "loop"
    /\ length > 0
    /\ failed[run] # <<>>
    /\ failed' = [failed EXCEPT ![run] = Tail(@)]
    /\ errors' = Append(errors, Head(failed[run]))
    /\ length' = length - 1
    /\ status' = setStatus(statusError)
    /\ pc' = IF FailedBreaks THEN "break_failed" ELSE LoopCond(length')
    /\ UNCHANGED <<ctx, receiver, sender, stopOnError, stackBuffer, capacity, timeout,
                   run, rcv, rcvCap, snd, sndClosed, done, resCap, wgDone, fwd,
                   workers, now, startTime, ctxVars, calls, mark>>

\* case <-done (wg.go:127-128)
LoopDone ==
    /\ pc = "loop"
    /\ length > 0
    /\ done[run] > 0
    /\ done' = [done EXCEPT ![run] = @ - 1]
    /\ length' = length - 1
    /\ pc' = LoopCond(length')
    /\ UNCHANGED <<status, ctx, receiver, sender, errors, stopOnError, stackBuffer,
                   capacity, timeout, run, rcv, rcvCap, snd, sndClosed, failed,
                   resCap, wgDone, fwd, workers, now, startTime, ctxVars, calls, mark>>

\* case <-wg.ctx.Done() (wg.go:131-138)
LoopCtxDone ==
    /\ pc = "loop"
    /\ length > 0
    /\ runCtx.err # "nil"
    /\ IF IsCanceled(runCtx.err)
       THEN /\ status' = setStatus(statusCaneled)
            /\ UNCHANGED errors
       ELSE IF runCtx.deadline # NoDeadline
       THEN /\ errors' = Append(errors, ErrorTimeout(runCtx.deadline[1] - startTime))
            /\ status' = setStatus(statusTimeout)
       ELSE UNCHANGED <<status, errors>>
    /\ pc' = "break_ctx"
    /\ UNCHANGED <<ctx, receiver, sender, stopOnError, stackBuffer, capacity, length,
                   timeout, run, chanVars, fwd, workers, now, startTime, ctxVars, calls, mark>>

\* close(wgDone); close(wg.sender); the deferred cancel(); return wg (wg.go:142-146)
Teardown ==
    /\ pc \in {"end", "break_failed", "break_ctx"}
    /\ wgDone' = [wgDone EXCEPT ![run] = TRUE]
    /\ sndClosed' = [sndClosed EXCEPT ![sender] = TRUE]
    /\ runCtx' = [runCtx EXCEPT !.err = IF @ = "nil" THEN "Canceled" ELSE @]
    /\ pc' = "idle"
    /\ UNCHANGED <<wgVars, run, rcv, rcvCap, snd, failed, done, resCap, fwd, workers,
                   now, startTime, callerCtx, calls, mark>>


(* -------------------------- the forwarder ------------------------------ *)
\* go func() { for f := range wg.sender ...: the goroutine evaluates the range
\* expression, reading the sender field (wg.go:91-92)
FwdRange(r) ==
    /\ fwd[r].pc = "start"
    /\ fwd' = [fwd EXCEPT ![r].pc = "range", ![r].ch = sender]
    /\ UNCHANGED <<wgVars, pc, run, chanVars, workers, now, startTime, ctxVars, calls, mark>>

\* a receive of the range loop: the next queued task, entering the select with
\* the receiver field read then, or the end of the loop on a closed, drained
\* channel (wg.go:92-93)
FwdNext(r) ==
    /\ fwd[r].pc = "range"
    /\ fwd[r].ch # NilChan
    /\ LET c == fwd[r].ch
       IN  \/ /\ snd[c] # <<>>
              /\ snd' = [snd EXCEPT ![c] = Tail(@)]
              /\ fwd' = [fwd EXCEPT ![r].pc = "select", ![r].f = Head(snd[c]),
                                    ![r].rch = receiver]
           \/ /\ snd[c] = <<>>
              /\ sndClosed[c]
              /\ fwd' = [fwd EXCEPT ![r].pc = "exited"]
              /\ UNCHANGED snd
    /\ UNCHANGED <<wgVars, pc, run, rcv, rcvCap, sndClosed, failed, done, resCap,
                   wgDone, workers, now, startTime, ctxVars, calls, mark>>

\* case wg.receiver <- f (wg.go:94)
FwdSend(r) ==
    /\ fwd[r].pc = "select"
    /\ fwd[r].rch # NilChan
    /\ Len(rcv[fwd[r].rch]) < rcvCap[fwd[r].rch]
    /\ rcv' = [rcv EXCEPT ![fwd[r].rch] = Append(@, fwd[r].f)]
    /\ fwd' = [fwd EXCEPT ![r].pc = "range", ![r].f = "none", ![r].rch = NilChan]
    /\ UNCHANGED <<wgVars, pc, run, rcvCap, snd, sndClosed, failed, done, resCap,
                   wgDone, workers, now, startTime, ctxVars, calls, mark>>

\* case <-wgDone: return (wg.go:96-97)
FwdDone(r) ==
    /\ fwd[r].pc = "select"
    /\ wgDone[r]
    /\ fwd' = [fwd EXCEPT ![r].pc = "exited", ![r].f = "none", ![r].rch = NilChan]
    /\ UNCHANGED <<wgVars, pc, run, chanVars, workers, now, startTime, ctxVars, calls, mark>>

(* ---------------------------- the workers ------------------------------ *)
\* a variant of ShortCircuit in which no worker skips its task
ShortCircuitNever == FALSE

\* the worker reads stopOnError and, in do, the status (wg.go:109-113, 211-216)
ShortCircuit == stopOnError /\ ~checkStatus(statusSuccess)

\* a variant of Result in which a returned error is dropped
ResultErrDone(f) == IF f.kind = "panic" THEN "panic" ELSE "done"

\* a variant of Result in which a panic is recovered and reported on done
ResultPanicDone(f) == IF f.kind = "err" THEN "err" ELSE "done"

\* what the body of a task sends when it ends: do's failed <- err, the
\* recovered panic's failed <- ..., or done <- struct{}{} (wg.go:203-223)
Result(f) ==
    CASE f.kind = "ok"    -> "done"
      [] f.kind = "err"   -> "err"
      [] f.kind = "panic" -> "panic"

WorkerCheck(r, i) ==
    /\ workers[r][i].pc = "start"
    /\ workers' = [workers EXCEPT ![r][i].pc = IF ShortCircuit THEN "skip" ELSE "body"]
    /\ UNCHANGED <<wgVars, pc, run, chanVars, fwd, now, startTime, ctxVars, calls, mark>>

\* a variant of WorkerSkip in which the worker counts itself off instead of
\* sending on done
WorkerSkipCounts(r, i) ==
    /\ workers[r][i].pc = "skip"
    /\ length' = length - 1
    /\ workers' = [workers EXCEPT ![r][i].pc = "exited", ![r][i].msg = "skip"]
    /\ UNCHANGED <<status, ctx, receiver, sender, errors, stopOnError, stackBuffer,
                   capacity, timeout, pc, run, chanVars, fwd, now, startTime,
                   ctxVars, calls, mark>>

\* done <- struct{}{} of a short-circuited worker (wg.go:214)
WorkerSkip(r, i) ==
    /\ workers[r][i].pc = "skip"
    /\ done[r] < resCap[r]
    /\ done' = [done EXCEPT ![r] = @ + 1]
    /\ workers' = [workers EXCEPT ![r][i].pc = "exited", ![r][i].msg = "skip"]
    /\ UNCHANGED <<wgVars, pc, run, rcv, rcvCap, snd, sndClosed, failed, resCap,
                   wgDone, fwd, now, startTime, ctxVars, calls, mark>>

\* f(wg.ctx) returns or panics, and the worker sends its one result (wg.go:203-223)
WorkerBody(r, i) ==
    /\ workers[r][i].pc = "body"
    /\ LET m == Result(workers[r][i].f)
       IN  /\ IF m = "done"
              THEN /\ done[r] < resCap[r]
                   /\ done' = [done EXCEPT ![r] = @ + 1]
                   /\ UNCHANGED failed
              ELSE /\ Len(failed[r]) < resCap[r]
                   /\ failed' = [failed EXCEPT ![r] =
                                   Append(@, [kind |-> m, idx |-> workers[r][i].f.idx])]
                   /\ UNCHANGED done
           /\ workers' = [workers EXCEPT ![r][i].pc = "exited", ![r][i].msg = m]
    /\ UNCHANGED <<wgVars, pc, run, rcv, rcvCap, snd, sndClosed, resCap,
                   wgDone, fwd, now, startTime, ctxVars, calls, mark>>

(* ----------------------- contexts, timers, time ------------------------ *)
\* the caller's context is still of consequence: it is the group's context, or
\* the parent of the live derived context
CallerCtxLive ==
    \/ ctx = "caller"
    \/ (runCtx.parent = "caller" /\ runCtx.err = "nil")

\* cancelling the caller's context cancels the derived context (propagateCancel)
CancelCaller(e) ==
    /\ callerCtx' = [callerCtx EXCEPT !.err = e]
    /\ runCtx' = IF runCtx.parent = "caller" /\ runCtx.err = "nil"
                 THEN [runCtx EXCEPT !.err = e] ELSE runCtx

\* the caller calls the CancelFunc of its context
CallerCancel ==
    /\ CallerCtxLive
    /\ callerCtx.err = "nil"
    /\ CancelCaller("Canceled")
    /\ UNCHANGED <<wgVars, pc, run, chanVars, fwd, workers, now, startTime, calls, mark>>

\* the deadline of the caller's context passes and its timer fires
CallerTimer ==
    /\ CallerCtxLive
    /\ callerCtx.err = "nil"
    /\ callerCtx.deadline # NoDeadline
    /\ now' = Max(now, callerCtx.deadline[1])
    /\ CancelCaller("DeadlineExceeded")
    /\ UNCHANGED <<wgVars, pc, run, chanVars, fwd, workers, startTime, calls, mark>>

\* the deadline of the derived context passes and its timer fires
RunTimer ==
    /\ runCtx.timer
    /\ runCtx.err = "nil"
    /\ now' = Max(now, runCtx.deadline[1])
    /\ runCtx' = [runCtx EXCEPT !.err = "DeadlineExceeded"]
    /\ UNCHANGED <<wgVars, pc, run, chanVars, fwd, workers, startTime,
                   callerCtx, calls, mark>>

(* ------------------------------- Next ---------------------------------- *)
\* the steps of the dispatch loop, of the goroutines Start launches, and of the
\* timer of the derived context
Engine ==
    \/ LoopReceive
    \/ LoopFailed
    \/ LoopDone
    \/ LoopCtxDone
    \/ Teardown
    \/ \E r \in Runs : FwdRange(r)
    \/ \E r \in Runs : FwdNext(r)
    \/ \E r \in Runs : FwdSend(r)
    \/ \E r \in Runs : FwdDone(r)
    \/ \E r \in Runs : \E i \in 1..Len(workers[r]) : WorkerCheck(r, i)
    \/ \E r \in Runs : \E i \in 1..Len(workers[r]) : WorkerSkip(r, i)
    \/ \E r \in Runs : \E i \in 1..Len(workers[r]) : WorkerBody(r, i)
    \/ RunTimer

\* The caller configures a group before its first Start, giving it at most
\* one context, and queues at most MaxTasks tasks over the life of the group.
Configuring == run = 0

CanAdd == Queued + Len(stackBuffer) < MaxTasks

CanStart == Queued + Len(stackBuffer) <= MaxTasks

\* One run: the caller configures the group, starts it, and afterwards calls
\* Start on a group that has succeeded, Add and Reset.
Next ==
    \/ Configuring /\ ctx = "nil"
         /\ \E d \in {NoDeadline} \cup {<<t>> : t \in CtxTimeouts} : WithContext(d)
    \/ CanAdd /\ \E k \in TaskKinds : Add(k)
    \/ Configuring /\ \E t \in TimeoutInputs : SetTimeout(t)
    \/ Configuring /\ \E b \in BOOLEAN : SetStopOnError(b)
    \/ Configuring /\ \E c \in CapacityInputs : SetCapacity(c)
    \/ ~checkStatus(statusIdle) /\ Reset
    \/ StartSkip
    \/ CanStart /\ (run = 0 \/ status = statusSuccess) /\ StartRun
    \/ Engine
    \/ CallerCancel
    \/ CallerTimer

Spec == Init /\ [][Next]_vars

\* the dispatch loop: one iteration of its select
Loop == LoopReceive \/ LoopFailed \/ LoopDone \/ LoopCtxDone

\* The goroutine that called Start is scheduled, and time passes: the loop
\* takes a case of its select when one is ready, the teardown follows the
\* loop, and the timers fire.  Nothing is assumed of the workers, the task
\* bodies or the forwarder.
FairSpec ==
    /\ Spec
    /\ WF_vars(Loop)
    /\ WF_vars(Teardown)
    /\ WF_vars(RunTimer)
    /\ WF_vars(CallerTimer)

\* a step of the forwarder goroutine of run r
Forwarder(r) == FwdRange(r) \/ FwdNext(r) \/ FwdSend(r) \/ FwdDone(r)

\* The forwarder goroutines are scheduled as well: a forwarder that can take
\* a step takes one.
FairForwarderSpec == FairSpec /\ \A r \in Runs : WF_vars(Forwarder(r))

\* Reuse: the caller also calls Start again, with or without a Reset in
\* between, on a group whose stop-on-error flag it has set or left alone.
NextReuse ==
    \/ CanAdd /\ \E k \in TaskKinds : Add(k)
    \/ Configuring /\ \E b \in BOOLEAN : SetStopOnError(b)
    \/ ~checkStatus(statusIdle) /\ Reset
    \/ StartSkip
    \/ CanStart /\ StartRun
    \/ Engine

SpecReuse == Init /\ [][NextReuse]_vars

\* Deadlines: one run of a group configured with a context, a timeout (zero
\* included) and the stop-on-error flag.
NextDeadline ==
    \/ Configuring /\ ctx = "nil"
         /\ \E d \in {NoDeadline} \cup {<<t>> : t \in CtxTimeouts} : WithContext(d)
    \/ Configuring /\ CanAdd /\ \E k \in TaskKinds : Add(k)
    \/ Configuring /\ \E t \in {0} \cup TimeoutInputs : SetTimeout(t)
    \/ Configuring /\ \E b \in BOOLEAN : SetStopOnError(b)
    \/ Configuring /\ CanStart /\ StartRun
    \/ Engine
    \/ CallerCancel
    \/ CallerTimer

SpecDeadline == Init /\ [][NextDeadline]_vars

\* Reset and run again: after a run whose workers have all ended the caller
\* may call Reset, queue tasks and call Start again; it queues one task more
\* than MaxTasks over the life of the group.
Settled == \A r \in Runs : \A j \in 1..Len(workers[r]) : workers[r][j].pc = "exited"

NextOrder ==
    \/ Queued + Len(stackBuffer) <= MaxTasks /\ \E k \in TaskKinds : Add(k)
    \/ Configuring /\ \E b \in BOOLEAN : SetStopOnError(b)
    \/ ~checkStatus(statusIdle) /\ Settled /\ Reset
    \/ StartSkip
    \/ (run = 0 \/ checkStatus(statusIdle)) /\ StartRun
    \/ Engine

SpecOrder == Init /\ [][NextOrder]_vars

(* ======================================================================= *)
(*                               Claims                                    *)
(* ======================================================================= *)
\* the workers of run r that are launched and have not reported their result
InFlight(r) == {i \in 1..Len(workers[r]) : workers[r][i].pc # "exited"}

\* the failures of tasks (returned errors and recovered panics) in a list
TaskFailures(es) == {i \in 1..Len(es) : es[i].kind \in {"err", "panic"}}

\* the timeout failures in a list, from position m + 1 on
TimeoutsSince(es, m) == {i \in (m + 1)..Len(es) : es[i].kind = "timeout"}

\* the tasks of a queue that return an error or panic
Failing(q) == {i \in 1..Len(q) : q[i].kind \in {"err", "panic"}}

\* Start is running on a freshly constructed group
FreshRun == run = 1 /\ pc # "idle"

\* C1: with a capacity c > 0 set, never more than c tasks are in flight
\* (launched by the dispatch loop and not yet resolved) during a run.
C1_InFlightWithinCapacity ==
    (pc = "loop" /\ capacity > 0 /\ Len(stackBuffer) > capacity)
        => Cardinality(InFlight(run)) <= capacity

\* C2: with stop-on-error false, when the run of a fresh group ends because
\* every task resolved, the error list has one entry per task that returned a
\* failure or panicked, every task body ran exactly once, and the status is
\* Error with at least one such task and Success with none.
C2_AllErrorsCollected ==
    (FreshRun /\ pc = "end" /\ ~stopOnError) =>
        /\ Len(GetAllErrors) = Cardinality(Failing(stackBuffer))
        /\ \A i \in 1..Len(stackBuffer) :
              Cardinality({j \in 1..Len(workers[1]) :
                              /\ workers[1][j].f = stackBuffer[i]
                              /\ workers[1][j].pc = "exited"
                              /\ workers[1][j].msg = Result(stackBuffer[i])}) = 1
        /\ Len(workers[1]) = Len(stackBuffer)
        /\ status = IF Failing(stackBuffer) # {} THEN statusError ELSE statusSuccess

C2_Witness ==
    /\ FreshRun /\ pc = "end" /\ ~stopOnError
    /\ Len(stackBuffer) = 2
    /\ Cardinality(Failing(stackBuffer)) = 1
    /\ \E i \in 1..2 : stackBuffer[i].kind = "panic"

\* C3: with stop-on-error true, the run of a fresh group appends at most one
\* task or panic failure to the error list, whatever the number of failing
\* tasks and the interleaving.
C3_AtMostOneFailure ==
    (run = 1 /\ stopOnError) => Cardinality(TaskFailures(errors)) <= 1

C3_Witness ==
    /\ run = 1 /\ stopOnError /\ pc = "idle"
    /\ Cardinality(TaskFailures(errors)) = 1
    /\ failed[1] # <<>>

\* C4: when the loop observes that the deadline has passed, the status is
\* TimedOut, exactly one timeout failure has been appended in the run, and it
\* is the last element of the error list.
C4_TimeoutObserved ==
    (pc = "break_ctx" /\ runCtx.err = "DeadlineExceeded") =>
        /\ status = statusTimeout
        /\ Len(errors) > mark
        /\ GetLastError.kind = "timeout"
        /\ Cardinality(TimeoutsSince(errors, mark)) = 1

C4_Witness ==
    /\ pc = "break_ctx" /\ runCtx.err = "DeadlineExceeded"
    /\ stopOnError /\ capacity = 1 /\ Len(stackBuffer) = 2
    /\ Len(errors) = 1

\* C5: when the loop observes that the context was cancelled, not timed out,
\* the status is Cancelled and no timeout failure has been appended in the
\* run: the error list holds the task failures observed before.
C5_CancelObserved ==
    (pc = "break_ctx" /\ runCtx.err = "Canceled") =>
        /\ status = statusCaneled
        /\ TimeoutsSince(errors, mark) = {}
        /\ \A i \in (mark + 1)..Len(errors) : errors[i].kind \in {"err", "panic"}

C5_Witness ==
    /\ pc = "break_ctx" /\ run = 1
    /\ callerCtx.err = "Canceled" /\ runCtx.err = "Canceled"
    /\ callerCtx.deadline # NoDeadline
    /\ Len(errors) = 1


\* C6: every call of Start returns, also with no timeout set, no deadline in
\* the context and task bodies that never end.
C6_StartReturns == (pc # "idle") ~> (pc = "idle")

C6_Witness ==
    /\ pc = "idle" /\ run = 1 /\ status = statusTimeout
    /\ timeout = NoTimeout /\ callerCtx = NoCtx
    /\ now = defaultMaxTimeout
    /\ \E i \in 1..Len(workers[1]) : workers[1][i].pc = "body"

\* C7: after a run that aborted early, no goroutine of the run is blocked for
\* ever; for the forwarder: it is not ranging over a nil channel, from which
\* no receive ever returns.
C7_NoUnitBlockedForever ==
    \A r \in Runs : ~(wgDone[r] /\ fwd[r].pc = "range" /\ fwd[r].ch = NilChan)

\* C8: a panic in a task becomes exactly one failure value, which the loop
\* handles like a returned error: it is appended to the error list, the
\* remaining-count is decremented, the status is set to Error, and with
\* stop-on-error the loop is left.
C8_PanicIsAFailure ==
    /\ \A r \in Runs : \A j \in 1..Len(workers[r]) :
          (workers[r][j].f.kind = "panic" /\ workers[r][j].pc = "exited"
              /\ workers[r][j].msg # "skip")
          => workers[r][j].msg = "panic"
    /\ (run = 1 /\ status # statusIdle) =>
          /\ \A j \in 1..Len(workers[1]) :
                (workers[1][j].f.kind = "panic" /\ workers[1][j].msg = "panic")
                => Cardinality({i \in 1..Len(failed[1]) :
                                    failed[1][i] = [kind |-> "panic", idx |-> workers[1][j].f.idx]})
                   + Cardinality({i \in 1..Len(errors) :
                                    errors[i] = [kind |-> "panic", idx |-> workers[1][j].f.idx]})
                   = 1
          /\ (\E i \in 1..Len(errors) : errors[i].kind = "panic") =>
                /\ status # statusSuccess
                /\ length <= resCap[1] - Cardinality(TaskFailures(errors))
                /\ stopOnError => pc # "loop"

C8_Witness ==
    /\ run = 1 /\ stopOnError /\ pc = "break_failed"
    /\ GetLastError.kind = "panic"
    /\ status = statusError
    /\ length = 1

\* C9: a second Start on a group whose run ended in Error, TimedOut or
\* Cancelled, with no Reset in between, does not run again: it starts no run
\* and leaves the status and the error list as they are.
C9_NoRerun ==
    [][(pc = "idle" /\ run > 0 /\ status \in {statusTimeout, statusCaneled, statusError})
         => /\ run' = run
            /\ status' # statusIdle => (status' = status /\ errors' = errors)]_vars

\* C10: on a group whose status is Success, Start returns and changes
\* nothing, until Reset: no run begins, no task is launched, and the error
\* list, the status, the context and the channels stay as they are.
C10_StartOnSuccessIsNoOp ==
    [][(pc = "idle" /\ status = statusSuccess)
         => /\ pc' = "idle"
            /\ run' = run
            /\ status' = statusSuccess =>
                 /\ errors' = errors
                 /\ ctx' = ctx
                 /\ receiver' = receiver
                 /\ sender' = sender
                 /\ length' = length
                 /\ \A r \in Runs : Len(workers'[r]) = Len(workers[r])]_vars

C10_Witness ==
    /\ calls = "skip" /\ status = statusSuccess
    /\ run = 1 /\ resCap[1] = 0
    /\ stackBuffer # <<>>

\* C11: after Reset the group is as New() makes it: every field an accessor
\* returns or a later run depends on (task queue, error list, status, context,
\* timeout, stop-on-error flag, capacity) has the value it has in a new group.
C11_ResetIsFresh ==
    [][(status # statusIdle /\ status' = statusIdle)
         => /\ stackBuffer' = <<>>
            /\ errors' = <<>>
            /\ ctx' = "nil"
            /\ timeout' = NoTimeout
            /\ stopOnError' = FALSE
            /\ capacity' = 0]_vars

\* C12: a run that follows a Reset has the outcomes of the first run of a new
\* group with the same queue: the loop launches the tasks of that queue only,
\* and the error list holds failures of tasks of that queue only.
C12_RunAfterResetIsFresh ==
    (pc # "idle" /\ mark = 0) =>
        /\ \A j \in 1..Len(workers[run]) :
              \E i \in 1..Len(stackBuffer) : stackBuffer[i] = workers[run][j].f
        /\ \A i \in TaskFailures(errors) :
              \E k \in Failing(stackBuffer) :
                 errors[i] = [kind |-> stackBuffer[k].kind, idx |-> k]

\* the earlier of two instants
Earlier(a, b) == IF a <= b THEN a ELSE b

\* the deadline of the caller's context if it has one, and otherwise d
CallerDeadlineOr(d) ==
    IF callerCtx.deadline # NoDeadline THEN callerCtx.deadline[1] ELSE d

\* C13 as stated: the deadline of a run is the earliest of the deadline of the
\* caller's context, the start plus the timeout set (if set and not zero) and
\* the start plus the default ceiling, so that no run outlasts the ceiling.
C13_EarliestOfThree ==
    (FreshRun /\ pc = "loop") =>
        LET ceiling  == startTime + defaultMaxTimeout
            explicit == IF timeout # NoTimeout /\ timeout[1] # 0
                        THEN startTime + timeout[1] ELSE ceiling
        IN  runCtx.deadline = <<Earlier(CallerDeadlineOr(ceiling), Earlier(explicit, ceiling))>>

\* C13 amended: the deadline of a run is the earlier of the deadline of the
\* caller's context and the start plus the timeout set; the default ceiling
\* stands in for a timeout that is not set or zero, and does not cap one that
\* is set.
C13_EffectiveDeadline ==
    (FreshRun /\ pc = "loop") =>
        LET d == IF timeout # NoTimeout /\ timeout[1] # 0
                 THEN startTime + timeout[1] ELSE startTime + defaultMaxTimeout
        IN  runCtx.deadline = <<Earlier(CallerDeadlineOr(d), d)>>

C13_Witness ==
    /\ FreshRun /\ pc = "loop"
    /\ timeout = <<defaultMaxTimeout + 5>>
    /\ callerCtx.deadline = NoDeadline
    /\ runCtx.err = "DeadlineExceeded"
    /\ now = startTime + defaultMaxTimeout + 5

\* C14: with stop-on-error true, a worker that checks the status when it is no
\* longer Success does not run the body of its task: it reports one result, on
\* done, and none on failed; and once the loop is left no task still queued
\* is launched.
C14_ShortCircuit ==
    [][/\ \A r \in Runs : \A j \in 1..Len(workers[r]) :
             /\ (/\ stopOnError /\ status # statusSuccess
                 /\ workers[r][j].pc = "start" /\ workers'[r][j].pc # "start")
                => workers'[r][j].pc = "skip"
             /\ (workers[r][j].pc = "skip" /\ workers'[r][j].pc # "skip")
                => /\ workers'[r][j].pc = "exited"
                   /\ workers'[r][j].msg = "skip"
                   /\ done'[r] = done[r] + 1
                   /\ failed' = failed
       /\ pc # "loop" => \A r \in Runs : Len(workers'[r]) = Len(workers[r])]_vars

C14_Witness ==
    /\ run = 1 /\ stopOnError /\ status = statusError /\ pc = "idle"
    /\ Len(errors) = 1
    /\ \E j \in 1..Len(workers[1]) :
          workers[1][j].msg = "skip" /\ workers[1][j].f.kind = "err"

\* the results the workers of run r have sent, and those the loop has taken
\* from the channels failed and done
Reported(r) == {j \in 1..Len(workers[r]) : workers[r][j].msg # "none"}

Received(r) == Cardinality(Reported(r)) - Len(failed[r]) - done[r]

\* C15: during a run over N tasks the remaining-count is between 0 and N and
\* is N less the number of results the loop has received; a launched task
\* has reported at most one result, when it has exited and not before; the
\* count never grows; and the loop is left only with the count at zero, on a
\* failure with stop-on-error, or on the end of the context.
C15_RemainingCount ==
    /\ [](pc # "idle" =>
            /\ 0 <= length /\ length <= resCap[run]
            /\ length = resCap[run] - Received(run)
            /\ \A j \in 1..Len(workers[run]) :
                  workers[run][j].msg # "none" <=> workers[run][j].pc = "exited"
            /\ pc = "loop" => length > 0
            /\ pc = "end" => length = 0
            /\ pc = "break_failed" => stopOnError /\ status = statusError
            /\ pc = "break_ctx" => runCtx.err # "nil")
    /\ [][/\ (pc # "idle" /\ pc' # "idle") => length' <= length
          /\ (pc = "loop" /\ pc' # "loop") =>
                \/ length' = 0
                \/ stopOnError /\ Len(errors') = Len(errors) + 1
                \/ runCtx.err # "nil"
          /\ \A r \in Runs : \A j \in 1..Len(workers[r]) :
                workers[r][j].msg # "none" => workers'[r][j].msg = workers[r][j].msg]_vars

C15_Witness ==
    /\ FreshRun /\ pc = "loop"
    /\ resCap[1] = 2 /\ length = 1
    /\ Len(failed[1]) = 1
    /\ Received(1) = 1

\* C16: when Start has returned with status Success on a new group, the body
\* of every task queued was run, once, and returned nil, the remaining-count
\* is zero and the error list is empty.
C16_SuccessMeansAllRan ==
    (run = 1 /\ pc = "idle" /\ status = statusSuccess) =>
        /\ length = 0
        /\ GetAllErrors = <<>>
        /\ Len(workers[1]) = resCap[1]
        /\ \A i \in 1..resCap[1] :
              /\ workers[1][i].f = stackBuffer[i]
              /\ workers[1][i].f.kind = "ok"
              /\ workers[1][i].pc = "exited"
              /\ workers[1][i].msg = "done"

C16_Witness ==
    /\ run = 1 /\ pc = "idle" /\ status = statusSuccess
    /\ resCap[1] = 2 /\ stopOnError /\ capacity = 1
    /\ timeout # NoTimeout

\* C17: a run begins with the status Success, and until Start returns the
\* status changes only to TimedOut, Cancelled or Error, never back to Success
\* or Idle; the loop's receipt of a task's success leaves the status alone.
C17_StatusMonotonic ==
    [][/\ run' # run => status' = statusSuccess
       /\ pc # "idle" =>
             \/ status' = status
             \/ status' \in {statusTimeout, statusCaneled, statusError}
       /\ (pc = "loop" /\ done'[run] < done[run]) => status' = status]_vars

C17_Witness ==
    /\ FreshRun /\ pc = "end" /\ status = statusError
    /\ resCap[1] = 2 /\ Len(errors) = 1
    /\ workers[1][1].msg = "err" /\ workers[1][2].msg = "done"

\* C18: the forwarder goroutine of a run ends, however it is scheduled
\* relative to a Reset that follows the run, a forwarder that takes its first
\* step after the Reset included.
C18_ForwarderTerminates ==
    \A r \in Runs : (fwd[r].pc = "start") ~> (fwd[r].pc = "exited")

\* C19: when a run has ended with status TimedOut, the timeout failure it
\* appended carries a duration that is strictly positive and is the time from
\* the start of the run to the deadline, whether the deadline comes from
\* SetTimeout or from the caller's context.
C19_PositiveDuration ==
    (run = 1 /\ status = statusTimeout) =>
        /\ GetLastError.kind = "timeout"
        /\ GetLastError.d = runCtx.deadline[1] - startTime
        /\ GetLastError.d > 0

\* C20: the loop launches the tasks of a run in the order of Add: the j-th
\* worker it launches runs the j-th task of the queue.  (Runs to which a task
\* queued for an earlier run may have been forwarded are left aside: every
\* earlier submission channel still holds all it was filled with.)
C20_LaunchInOrder ==
    (pc # "idle" /\ \A r \in 1..(run - 1) : Len(snd[r]) = resCap[r]) =>
        \A j \in 1..Len(workers[run]) :
            j <= Len(stackBuffer) /\ workers[run][j].f = stackBuffer[j]

\* C21: a step of a worker or of a forwarder leaves the remaining-count, the
\* status and the error list as they are: only the loop (and, outside a run,
\* Start and Reset) changes them.
C21_OnlyLoopMutates ==
    [][(run' = run /\ (workers' # workers \/ fwd' # fwd))
         => /\ length' = length
            /\ status' = status
            /\ errors' = errors]_vars

C21_Witness ==
    /\ FreshRun /\ pc = "loop" /\ stopOnError
    /\ length = 2 /\ status = statusSuccess /\ errors = <<>>
    /\ Len(failed[1]) = 1 /\ done[1] = 1
    /\ fwd[1].pc = "range"

\* C22: with stop-on-error false, when the loop observes the deadline or a
\* cancellation after it has collected task failures, the status is TimedOut
\* or Cancelled, not Error, and the failures collected stay in the error
\* list, before the timeout failure if one is appended; and whenever the
\* status is Error the last element of the list is a task or panic failure.
C22_AbortOverwritesError ==
    /\ (FreshRun /\ pc = "break_ctx" /\ ~stopOnError /\ TaskFailures(errors) # {}) =>
          /\ status \in {statusTimeout, statusCaneled}
          /\ status = statusTimeout =>
                /\ GetLastError.kind = "timeout"
                /\ TaskFailures(errors) = 1..(Len(errors) - 1)
          /\ status = statusCaneled => TaskFailures(errors) = 1..Len(errors)
    /\ status = statusError =>
          /\ GetAllErrors # <<>>
          /\ GetLastError.kind \in {"err", "panic"}

C22_Witness ==
    /\ FreshRun /\ pc = "break_ctx" /\ ~stopOnError
    /\ status = statusTimeout
    /\ Len(errors) = 2
    /\ errors[1].kind = "panic" /\ errors[2].kind = "timeout"

====
